---------------------------- MODULE Spec2Model ----------------------------
(***************************************************************************)
(* Model of the compressed inverted index (comprimir.py) and of its        *)
(* reader and boolean query engine (buscar.py).                            *)
(*                                                                         *)
(* Python values are represented as follows:                               *)
(*   bytes        a sequence of naturals in 0..255                         *)
(*   str          a sequence of Unicode code points (naturals)             *)
(*   list         a sequence                                               *)
(*   dict         a function whose DOMAIN is the set of keys               *)
(*   set          a set                                                    *)
(* A call that can raise is modelled by a value operator together with a   *)
(* predicate  <name>_raises  telling when the exception is raised, or by a *)
(* record with an  err  field.  The fields of a record are written in the  *)
(* order TLC keeps them in, so that no worker has to reorder a shared      *)
(* value.                                                                  *)
(***************************************************************************)
EXTENDS Integers, Sequences, FiniteSets

VARIABLES
    \* ---- Variable-Byte codec exercised alone (SpecVB)
    vbIn,       \* the integers handed to vb_encode_list
    vbBytes,    \* the byte stream handed to _vb_decode_stream
    vbRaw,      \* TRUE once a byte not produced by the encoder was appended
    vbOut,      \* what the call of _vb_decode_stream did
    \* ---- front coding exercised alone (SpecFC)
    fcTerms,    \* terms_sorted handed to front_code_blocks
    fcBlock,    \* block_size
    fcBlob,     \* the bytes front_code_blocks returned
    fcOut,      \* what _decode_lexicon_fc did with fcBlob
    \* ---- compression and loading (SpecComp, SpecIds)
    indice,     \* the raw index: [term, plist] in insertion order
    compressed, \* comprimir_indice(indice, BlockSize)
    \* ---- the loaded reader
    cr,         \* the CompressedReader built from the saved files
    \* ---- the query session (Spec, SpecQuery, SpecUnknown)
    universo,   \* main's universe set, computed once after loading
    opcion,     \* the menu option of the last pass
    entrada,    \* its input: the terms or the tokens typed
    outcome,    \* what the pass did (see Pass)
    huboError   \* some earlier pass of this session ended in an error

vbVars == <<vbIn, vbBytes, vbRaw, vbOut>>
fcVars == <<fcTerms, fcBlock, fcBlob, fcOut>>
compVars == <<indice, compressed, cr>>
qVars == <<universo, opcion, entrada, outcome, huboError>>
vars == <<vbVars, fcVars, compVars, qVars>>

(***************************************************************************)
(* Bounds of the model.                                                    *)
(***************************************************************************)
MaxSeqLen == 3      \* integers per encoded list
MaxRawBytes == 2    \* bytes of a stream that did not come from the encoder
MaxTerms == 4       \* terms of a front-coded lexicon
MaxBlock == 3       \* largest front-coding block size tried
MaxPostings == 4    \* document IDs in a raw index, over all its terms
MaxTokens == 5      \* tokens of a boolean query in SpecQuery
MaxConsulta == 3    \* tokens of a boolean query in a session (Spec)
MaxTerminos == 2    \* terms typed for options 1, 2 and 3
MaxIds == 3         \* document IDs of any type in a raw index (SpecIds)

\* block_size of main.py's call of comprimir_indice.
BlockSize == 8

gato == <<103, 97, 116, 111>>
perro == <<112, 101, 114, 114, 111>>
raton == <<114, 97, 116, 243, 110>>        \* with o-acute, as in the menu
otro == <<122>>                            \* a term of no index
\* Terms and document IDs of the raw indexes built in SpecComp.
CompTerms == {gato, perro}
DocPool == {0, 3, 7, 40, 130}

\* Integers fed to the codec: 0, one-byte, two-byte and three-byte values.
VBValues == {0, 1, 127, 128, 300, 16384}
\* Sample terms (code points): a, ab, a e-acute, a e-circumflex, e-acute,
\* e-acute a, e-circumflex, euro sign.  e-acute (233) and e-circumflex (234)
\* share their first UTF-8 byte; the euro sign (8364) takes three bytes.
TermPool ==
    { <<97>>, <<97, 98>>, <<97, 233>>, <<97, 234>>,
      <<233>>, <<233, 97>>, <<234>>, <<8364>> }
\* Raw bytes: continuation bytes (high bit 0) and terminating bytes (high bit 1).
RawBytes == {5, 129}

(***************************************************************************)
(* Generic helpers.                                                        *)
(***************************************************************************)
Last(s) == s[Len(s)]
Range(s) == {s[i] : i \in 1..Len(s)}
Min(a, b) == IF a < b THEN a ELSE b
\* Python slice s[a:b] with 0 <= a (0-based, end exclusive, clipped to len(s)).
Slice(s, a, b) == SubSeq(s, a + 1, Min(b, Len(s)))

(***************************************************************************)
(* comprimir.py: Variable-Byte encoding.                                   *)
(***************************************************************************)
\* The  while True  loop of vb_encode_number: base-128 digits, LSB first.
RECURSIVE vb_chunks(_)
vb_chunks(n) ==
    IF n \div 128 = 0
        THEN <<n % 128>>
        ELSE <<n % 128>> \o vb_chunks(n \div 128)

vb_encode_number_raises(n) == n < 0

\* Mutant: the terminating mark is put on the first emitted byte.
vb_encode_number_markfirst(n) ==
    LET chunks == vb_chunks(n)
        k == Len(chunks)
    IN  [j \in 1..k |->
            LET i == k - j
                b == chunks[i + 1]
            IN  IF i = k - 1 THEN b + 128 ELSE b]

\* Emitted from the heaviest digit down; the byte of digit 0 gets b |= 0x80.
vb_encode_number(n) ==
    LET chunks == vb_chunks(n)
        k == Len(chunks)
    IN  [j \in 1..k |->
            LET i == k - j
                b == chunks[i + 1]
            IN  IF i = 0 THEN b + 128 ELSE b]

RECURSIVE vb_encode_list(_)
vb_encode_list(nums) ==
    IF nums = <<>>
        THEN <<>>
        ELSE vb_encode_number(Head(nums)) \o vb_encode_list(Tail(nums))

vb_encode_list_raises(nums) ==
    \E i \in 1..Len(nums) : vb_encode_number_raises(nums[i])

\* d_gaps: [d1, d2-d1, ...] of a sorted list.
d_gaps(sorted_docids) ==
    [i \in 1..Len(sorted_docids) |->
        IF i = 1 THEN sorted_docids[1]
                 ELSE sorted_docids[i] - sorted_docids[i - 1]]

(***************************************************************************)
(* buscar.py: Variable-Byte decoding.                                      *)
(***************************************************************************)
\* The loop of _vb_decode_stream over data[i..], with nums and n so far.
\* b & 0x80 is b >= 128 and (n << 7) | (b & 0x7F) is n * 128 + b % 128.
RECURSIVE vb_decode_loop(_, _, _, _)
vb_decode_loop(data, i, nums, n) ==
    IF i > Len(data)
        THEN [n |-> n, nums |-> nums]
        ELSE LET b == data[i]
             IN  IF b >= 128
                     THEN vb_decode_loop(data, i + 1,
                                         Append(nums, n * 128 + (b % 128)), 0)
                     ELSE vb_decode_loop(data, i + 1, nums, n * 128 + b)

\* After the loop:  if n != 0: pass ; return nums.  The call never raises.
_vb_decode_stream(data) ==
    LET r == vb_decode_loop(data, 1, <<>>, 0)
    IN  [nums |-> r.nums, raised |-> FALSE]

\* _from_dgaps: running sums.
RECURSIVE from_dgaps_loop(_, _, _)
from_dgaps_loop(gaps, i, acc) ==
    IF i > Len(gaps)
        THEN <<>>
        ELSE <<acc + gaps[i]>> \o from_dgaps_loop(gaps, i + 1, acc + gaps[i])

_from_dgaps(gaps) == from_dgaps_loop(gaps, 1, 0)

\* CompressedReader._vb_decode_number_from(data, pos), pos 0-based:
\* (value, new pos), or the ValueError "VB mal formado: fin de datos".
RECURSIVE vb_decode_number_loop(_, _, _)
vb_decode_number_loop(data, pos, n) ==
    IF pos >= Len(data)
        THEN [pos |-> pos, err |-> TRUE, val |-> 0]
        ELSE LET b == data[pos + 1]
             IN  IF b >= 128
                     THEN [pos |-> pos + 1,
                           err |-> FALSE,
                           val |-> n * 128 + (b % 128)]
                     ELSE vb_decode_number_loop(data, pos + 1, n * 128 + b)

_vb_decode_number_from(data, pos) == vb_decode_number_loop(data, pos, 0)

(***************************************************************************)
(* str.encode("utf-8") and bytes.decode("utf-8").                          *)
(***************************************************************************)
utf8_char(c) ==
    IF c < 128 THEN <<c>>
    ELSE IF c < 2048 THEN <<192 + (c \div 64), 128 + (c % 64)>>
    ELSE IF c < 65536
        THEN <<224 + (c \div 4096), 128 + ((c \div 64) % 64), 128 + (c % 64)>>
    ELSE <<240 + (c \div 262144), 128 + ((c \div 4096) % 64),
           128 + ((c \div 64) % 64), 128 + (c % 64)>>

RECURSIVE utf8_encode(_)
utf8_encode(s) ==
    IF s = <<>> THEN <<>> ELSE utf8_char(Head(s)) \o utf8_encode(Tail(s))

IsCont(b, i) == i <= Len(b) /\ b[i] >= 128 /\ b[i] < 192

\* Strict decoding from byte i on: [err, s]; err is UnicodeDecodeError.
RECURSIVE utf8_decode_from(_, _)
utf8_decode_from(b, i) ==
    IF i > Len(b) THEN [s |-> <<>>, err |-> FALSE]
    ELSE
        LET c == b[i]
            one == c < 128
            two == c >= 194 /\ c < 224 /\ IsCont(b, i + 1)
            three == c >= 224 /\ c < 240 /\ IsCont(b, i + 1) /\ IsCont(b, i + 2)
            four == c >= 240 /\ c < 245 /\ IsCont(b, i + 1) /\ IsCont(b, i + 2)
                    /\ IsCont(b, i + 3)
            cp == IF one THEN c
                  ELSE IF two THEN (c - 192) * 64 + (b[i + 1] - 128)
                  ELSE IF three
                      THEN (c - 224) * 4096 + (b[i + 1] - 128) * 64
                           + (b[i + 2] - 128)
                  ELSE IF four
                      THEN (c - 240) * 262144 + (b[i + 1] - 128) * 4096
                           + (b[i + 2] - 128) * 64 + (b[i + 3] - 128)
                  ELSE 0
            n == IF one THEN 1 ELSE IF two THEN 2 ELSE IF three THEN 3 ELSE 4
            wellformed ==
                \/ one
                \/ two
                \/ three /\ cp >= 2048 /\ ~(cp >= 55296 /\ cp < 57344)
                \/ four /\ cp >= 65536 /\ cp < 1114112
        IN  IF ~wellformed THEN [s |-> <<>>, err |-> TRUE]
            ELSE LET rest == utf8_decode_from(b, i + n)
                 IN  [s |-> <<cp>> \o rest.s, err |-> rest.err]

utf8_decode(b) == utf8_decode_from(b, 1)

\* Python's order on str: lexicographic by code point.
RECURSIVE StrLess(_, _)
StrLess(a, b) ==
    IF b = <<>> THEN FALSE
    ELSE IF a = <<>> THEN TRUE
    ELSE IF Head(a) # Head(b) THEN Head(a) < Head(b)
    ELSE StrLess(Tail(a), Tail(b))

(***************************************************************************)
(* comprimir.py: front coding by blocks.                                   *)
(***************************************************************************)
RECURSIVE lcp_loop(_, _, _)
lcp_loop(a, b, i) ==
    IF i < Min(Len(a), Len(b)) /\ a[i + 1] = b[i + 1]
        THEN lcp_loop(a, b, i + 1)
        ELSE i

\* Mutant: the common prefix is measured on the UTF-8 bytes.
lcp_bytes(a, b) == lcp_loop(utf8_encode(a), utf8_encode(b), 0)

\* Longest common prefix, in code points.
lcp(a, b) == lcp_loop(a, b, 0)

\* One follower: VB(lcp(base, t)), VB(len(suf_b)), suf_b.
fc_follower(base, t) ==
    LET p == lcp(base, t)
        suf_b == utf8_encode(Slice(t, p, Len(t)))
    IN  vb_encode_number(p) \o vb_encode_number(Len(suf_b)) \o suf_b

RECURSIVE fc_followers(_, _, _)
fc_followers(base, followers, j) ==
    IF j > Len(followers) THEN <<>>
    ELSE fc_follower(base, followers[j]) \o fc_followers(base, followers, j + 1)

\* The  while i < n  loop of front_code_blocks, i 0-based.
RECURSIVE fc_blocks_loop(_, _, _)
fc_blocks_loop(terms_sorted, block_size, i) ==
    IF i >= Len(terms_sorted) THEN <<>>
    ELSE
        LET block == Slice(terms_sorted, i, i + block_size)
            base == block[1]
            base_b == utf8_encode(base)
            followers == Tail(block)
        IN  vb_encode_number(Len(base_b)) \o base_b
            \o vb_encode_number(Len(followers))
            \o fc_followers(base, followers, 1)
            \o fc_blocks_loop(terms_sorted, block_size, i + Len(block))

front_code_blocks(terms_sorted, block_size) ==
    fc_blocks_loop(terms_sorted, block_size, 0)

(***************************************************************************)
(* buscar.py: CompressedReader._decode_lexicon_fc.                         *)
(* Results are [err, terms, pos]; err stands for the ValueError of         *)
(* _vb_decode_number_from or the UnicodeDecodeError of decode("utf-8").    *)
(***************************************************************************)
FcFail(pos) == [pos |-> pos, err |-> TRUE, terms |-> <<>>]

\* The  for _ in range(followers)  loop, k followers left.
RECURSIVE fc_decode_followers(_, _, _, _, _)
fc_decode_followers(blob, pos, base, k, terms) ==
    IF k = 0 THEN [pos |-> pos, err |-> FALSE, terms |-> terms]
    ELSE
        LET l == _vb_decode_number_from(blob, pos)
        IN  IF l.err THEN FcFail(pos)
            ELSE
            LET sl == _vb_decode_number_from(blob, l.pos)
            IN  IF sl.err THEN FcFail(pos)
                ELSE
                LET suf == utf8_decode(Slice(blob, sl.pos, sl.pos + sl.val))
                IN  IF suf.err THEN FcFail(pos)
                    ELSE fc_decode_followers(
                             blob, sl.pos + sl.val, base, k - 1,
                             Append(terms, Slice(base, 0, l.val) \o suf.s))

RECURSIVE fc_decode_blocks(_, _, _)
\* The next turn of the  while pos < n  loop, r being what the block's
\* followers loop returned.
fc_next_block(blob, r) ==
    IF r.err THEN r ELSE fc_decode_blocks(blob, r.pos, r.terms)

\* The  while pos < n  loop.
fc_decode_blocks(blob, pos, terms) ==
    IF pos >= Len(blob) THEN [pos |-> pos, err |-> FALSE, terms |-> terms]
    ELSE
        LET bl == _vb_decode_number_from(blob, pos)
        IN  IF bl.err THEN FcFail(pos)
            ELSE
            LET base == utf8_decode(Slice(blob, bl.pos, bl.pos + bl.val))
            IN  IF base.err THEN FcFail(pos)
                ELSE
                LET fo == _vb_decode_number_from(blob, bl.pos + bl.val)
                IN  IF fo.err THEN FcFail(pos)
                    ELSE
                    fc_next_block(
                        blob,
                        fc_decode_followers(blob, fo.pos, base.s, fo.val,
                                            Append(terms, base.s)))

fc_terms_of(r) == [err |-> r.err, terms |-> r.terms]

_decode_lexicon_fc(blob, block_size) ==
    fc_terms_of(fc_decode_blocks(blob, 0, <<>>))

(***************************************************************************)
(* Document IDs.  A raw document ID is a Python int or a Python str:       *)
(*   [int |-> TRUE,  n |-> value, s |-> <<>>]                              *)
(*   [int |-> FALSE, n |-> 0,     s |-> code points]                       *)
(***************************************************************************)
DocInt(n) == [s |-> <<>>, n |-> n, int |-> TRUE]
DocStr(s) == [s |-> s, n |-> 0, int |-> FALSE]

\* str(n) of an int: decimal digits, "-" first when negative.
RECURSIVE Digits(_)
Digits(n) ==
    IF n < 10 THEN <<48 + n>> ELSE Append(Digits(n \div 10), 48 + (n % 10))

IntToStr(n) == IF n < 0 THEN <<45>> \o Digits(0 - n) ELSE Digits(n)

RECURSIVE DigitsValue(_, _)
DigitsValue(s, acc) ==
    IF s = <<>> THEN acc
    ELSE DigitsValue(Tail(s), acc * 10 + (Head(s) - 48))

AllDigits(s) == s # <<>> /\ \A i \in 1..Len(s) : s[i] >= 48 /\ s[i] <= 57

\* int(s) of a str: [err, val]; err is the ValueError of a non-numeric str.
StrToInt(s) ==
    IF AllDigits(s) THEN [err |-> FALSE, val |-> DigitsValue(s, 0)]
    ELSE IF s # <<>> /\ s[1] \in {43, 45} /\ AllDigits(Tail(s))
        THEN [err |-> FALSE,
              val |-> IF s[1] = 45 THEN 0 - DigitsValue(Tail(s), 0)
                                   ELSE DigitsValue(Tail(s), 0)]
    ELSE [err |-> TRUE, val |-> 0]

py_str(d) == IF d.int THEN IntToStr(d.n) ELSE d.s
py_int(d) == IF d.int THEN [err |-> FALSE, val |-> d.n] ELSE StrToInt(d.s)

\* sorted(S) of a set of ints.
RECURSIVE SortInts(_)
SortInts(S) ==
    IF S = {} THEN <<>>
    ELSE LET m == CHOOSE x \in S : \A y \in S : x <= y
         IN  <<m>> \o SortInts(S \ {m})

\* sorted(S) of a set of str.
RECURSIVE SortStrs(_)
SortStrs(S) ==
    IF S = {} THEN <<>>
    ELSE LET m == CHOOSE x \in S : \A y \in S : ~StrLess(y, x)
         IN  <<m>> \o SortStrs(S \ {m})

\* sorted(map(str, D)) of a set D of document IDs: equal strings are kept.
RECURSIVE SortDocStrs(_)
SortDocStrs(D) ==
    IF D = {} THEN <<>>
    ELSE LET m == CHOOSE x \in D : \A y \in D : ~StrLess(py_str(y), py_str(x))
         IN  <<py_str(m)>> \o SortDocStrs(D \ {m})

(***************************************************************************)
(* comprimir.py: _normalize_docids_to_ints.                                *)
(* The raw index is a dict in insertion order: a sequence of               *)
(* [term, plist] with distinct terms.                                      *)
(***************************************************************************)
IndexKeys(index) == {index[i].term : i \in 1..Len(index)}
IndexGet(index, term) ==
    (CHOOSE i \in 1..Len(index) : index[i].term = term)

all_docids_of(index) == UNION {Range(index[i].plist) : i \in 1..Len(index)}

\* example: plist[0] of the last non-empty posting list, in iteration order.
HasExample(index) == \E i \in 1..Len(index) : index[i].plist # <<>>
example_of(index) ==
    LET i == CHOOSE k \in 1..Len(index) :
                 /\ index[k].plist # <<>>
                 /\ \A j \in (k + 1)..Len(index) : index[j].plist = <<>>
    IN  index[i].plist[1]

NONE == <<0 - 1>>                               \* Python None in a list of str
NULL == <<60, 78, 85, 76, 76, 62>>              \* the str "<NULL>"

\* for s, i in doc_id_map.items(): rev[i] = s, over the sorted ints from k on
\* (negative i indexes from the end; outside the list is an IndexError).
RECURSIVE rev_ints_loop(_, _, _)
rev_ints_loop(ints, k, rev) ==
    IF k > Len(ints) THEN [err |-> FALSE, rev |-> rev]
    ELSE LET i == ints[k]
             at == IF i >= 0 THEN i ELSE Len(rev) + i
         IN  IF at < 0 \/ at >= Len(rev) THEN [err |-> TRUE, rev |-> rev]
             ELSE rev_ints_loop(ints, k + 1,
                                [rev EXCEPT ![at + 1] = IntToStr(i)])

\* Branch are_ints: the map is the identity on the int values.
normalize_ints(index) ==
    LET all == all_docids_of(index)
    IN  IF \E d \in all : py_int(d).err
            THEN [err |-> TRUE, rev |-> <<>>, doc_id_map |-> <<>>]
        ELSE
        LET vals == {py_int(d).val : d \in all}
            ints == SortInts(vals)
            doc_id_map == [k \in {IntToStr(x) : x \in vals} |-> StrToInt(k).val]
            size == Last(ints) + 1
            rev0 == [j \in 1..(IF size > 0 THEN size ELSE 0) |-> NONE]
            r == rev_ints_loop(ints, 1, rev0)
        IN  [err |-> r.err, rev |-> r.rev, doc_id_map |-> doc_id_map]

\* Mutant: enumerate(sorted_ids) without start=1, numbering from 0.
normalize_strs_fromzero(index) ==
    LET sorted_ids == SortDocStrs(all_docids_of(index))
        keys == Range(sorted_ids)
        doc_id_map ==
            [k \in keys |->
                (CHOOSE i \in 1..Len(sorted_ids) :
                    /\ sorted_ids[i] = k
                    /\ \A j \in (i + 1)..Len(sorted_ids) : sorted_ids[j] # k)
                - 1]
        size == Cardinality(keys) + 1
        rev == [j \in 1..size |->
                   IF \E k \in keys : doc_id_map[k] = j - 1
                       THEN CHOOSE k \in keys : doc_id_map[k] = j - 1
                       ELSE NULL]
    IN  [err |-> \E k \in keys : doc_id_map[k] >= size,
         rev |-> rev,
         doc_id_map |-> doc_id_map]

\* Branch not are_ints: str(doc) sorted, numbered from 1; a str met twice
\* keeps its last number.
normalize_strs(index) ==
    LET sorted_ids == SortDocStrs(all_docids_of(index))
        keys == Range(sorted_ids)
        doc_id_map ==
            [k \in keys |->
                CHOOSE i \in 1..Len(sorted_ids) :
                    /\ sorted_ids[i] = k
                    /\ \A j \in (i + 1)..Len(sorted_ids) : sorted_ids[j] # k]
        size == Cardinality(keys) + 1
        rev == [j \in 1..size |->
                   IF \E k \in keys : doc_id_map[k] = j - 1
                       THEN CHOOSE k \in keys : doc_id_map[k] = j - 1
                       ELSE NULL]
    IN  [err |-> \E k \in keys : doc_id_map[k] >= size,
         rev |-> rev,
         doc_id_map |-> doc_id_map]

\* Mutant: [to_int(d) for d in plist], neither deduplicated nor sorted.
index_int_of_asgiven(index, are_ints, doc_id_map) ==
    [t \in IndexKeys(index) |->
        LET plist == index[IndexGet(index, t)].plist
        IN  [i \in 1..Len(plist) |->
                IF are_ints THEN py_int(plist[i]).val
                            ELSE doc_id_map[py_str(plist[i])]]]

\* sorted({to_int(d) for d in plist}) for every term.
index_int_of(index, are_ints, doc_id_map) ==
    [t \in IndexKeys(index) |->
        SortInts({IF are_ints THEN py_int(d).val ELSE doc_id_map[py_str(d)]
                    : d \in Range(index[IndexGet(index, t)].plist)})]

\* [err, index_int, doc_id_map, rev]; err: the call raised.
\* return index_int, doc_id_map, rev_doc_id_map from the maps m of the
\* branch taken.
normalized_of(index, are_ints, m) ==
    IF m.err
        THEN [err |-> TRUE,
              rev |-> <<>>,
              doc_id_map |-> <<>>,
              index_int |-> <<>>]
        ELSE [err |-> FALSE,
              rev |-> m.rev,
              doc_id_map |-> m.doc_id_map,
              index_int |-> index_int_of(index, are_ints, m.doc_id_map)]

_normalize_docids_to_ints(index) ==
    IF ~HasExample(index)
        THEN [err |-> FALSE,
              rev |-> <<>>,
              doc_id_map |-> <<>>,
              index_int |-> [t \in IndexKeys(index) |-> <<>>]]
    ELSE
        normalized_of(index, example_of(index).int,
                      IF example_of(index).int THEN normalize_ints(index)
                                               ELSE normalize_strs(index))

(***************************************************************************)
(* comprimir.py: comprimir_indice.                                         *)
(***************************************************************************)
\* Mutant: the ValueError of vb_encode_list is swallowed and the term is
\* left without an entry.
posting_step_swallow(st, term, plist) ==
    IF vb_encode_list_raises(d_gaps(plist)) THEN st
    ELSE [err |-> FALSE,
          blob |-> st.blob \o vb_encode_list(d_gaps(plist)),
          offsets |-> [t \in DOMAIN st.offsets \cup {term} |->
                          IF t = term
                              THEN <<Len(st.blob),
                                     Len(vb_encode_list(d_gaps(plist)))>>
                              ELSE st.offsets[t]]]

\* Mutant: postings_offsets[term] = (start, end), the end where the length
\* belongs.
posting_step_endlen(st, term, plist) ==
    IF vb_encode_list_raises(d_gaps(plist)) THEN [st EXCEPT !.err = TRUE]
    ELSE [err |-> FALSE,
          blob |-> st.blob \o vb_encode_list(d_gaps(plist)),
          offsets |-> [t \in DOMAIN st.offsets \cup {term} |->
                          IF t = term
                              THEN <<Len(st.blob),
                                     Len(st.blob \o vb_encode_list(d_gaps(plist)))>>
                              ELSE st.offsets[t]]]

\* One iteration of  for term in terms_sorted  on the state st so far:
\* the blob, the offsets recorded, and whether vb_encode_list raised.
posting_step(st, term, plist) ==
    LET gaps == d_gaps(plist)
        encoded == vb_encode_list(gaps)
        start == Len(st.blob)
        end == Len(st.blob \o encoded)
    IN  IF vb_encode_list_raises(gaps)
            THEN [st EXCEPT !.err = TRUE]
            ELSE [err |-> FALSE,
                  blob |-> st.blob \o encoded,
                  offsets |-> [t \in DOMAIN st.offsets \cup {term} |->
                                  IF t = term THEN <<start, end - start>>
                                              ELSE st.offsets[t]]]

\* Iterations i..k of the loop, from the state st.
RECURSIVE posting_loop_from(_, _, _, _, _)
posting_loop_from(index_int, terms_sorted, i, k, st) ==
    IF i > k \/ st.err THEN st
    ELSE posting_loop_from(index_int, terms_sorted, i + 1, k,
             posting_step(st, terms_sorted[i], index_int[terms_sorted[i]]))

\* The state after the first k iterations of the loop.
posting_loop(index_int, terms_sorted, k) ==
    posting_loop_from(index_int, terms_sorted, 1, k,
                      [err |-> FALSE, blob |-> <<>>, offsets |-> <<>>])

NoIndex ==
    [err |-> TRUE,
     doc_id_map |-> <<>>,
     lexicon_bytes |-> <<>>,
     lexicon_block_size |-> 0,
     lexicon_terms_order |-> <<>>,
     postings_bytes |-> <<>>,
     postings_offsets |-> <<>>,
     rev_doc_id_map |-> <<>>]

\* The CompressedIndex returned, or err when the call raised.
\* return CompressedIndex(...) from the normalisation nz, the sorted terms
\* and the state pl the postings loop ended in.
compressed_index_of(nz, terms_sorted, pl, block_size) ==
    IF pl.err THEN NoIndex
    ELSE [err |-> FALSE,
          doc_id_map |-> nz.doc_id_map,
          lexicon_bytes |-> front_code_blocks(terms_sorted, block_size),
          lexicon_block_size |-> block_size,
          lexicon_terms_order |-> terms_sorted,
          postings_bytes |-> pl.blob,
          postings_offsets |-> pl.offsets,
          rev_doc_id_map |-> nz.rev]

\* The body of comprimir_indice once terms_sorted is known.
comprimir_terms(nz, terms_sorted, block_size) ==
    compressed_index_of(
        nz, terms_sorted,
        posting_loop(nz.index_int, terms_sorted, Len(terms_sorted)),
        block_size)

\* The body of comprimir_indice after _normalize_docids_to_ints returned nz.
comprimir_normalized(nz, block_size) ==
    IF nz.err THEN NoIndex
    ELSE comprimir_terms(nz, SortStrs(DOMAIN nz.index_int), block_size)

comprimir_indice(index, block_size) ==
    comprimir_normalized(_normalize_docids_to_ints(index), block_size)

(***************************************************************************)
(* main.py: guardar_comprimido, and buscar.py: CompressedReader.           *)
(***************************************************************************)
\* The files of index/ as guardar_comprimido writes them.  JSON keeps the
\* dicts and lists as they are; has_lexicon tells whether lexicon.bin
\* exists and have_all whether the three required files do.
guardar_comprimido(comp) ==
    [block_size |-> comp.lexicon_block_size,
     doc_id_map |-> comp.doc_id_map,
     postings_offsets |-> comp.postings_offsets,
     rev_doc_id_map |-> comp.rev_doc_id_map,
     have_all |-> TRUE,
     postings_bin |-> comp.postings_bytes,
     has_lexicon |-> TRUE,
     lexicon_bin |-> comp.lexicon_bytes,
     terms_order |-> comp.lexicon_terms_order]

NoReader ==
    [err |-> TRUE,
     block_size |-> 0,
     doc_id_map |-> <<>>,
     offsets |-> <<>>,
     rev_doc_id_map |-> <<>>,
     terms_order |-> <<>>,
     postings_blob |-> <<>>]

\* The reader's fields, fc being terms_order as read or as rebuilt.
reader_of(files, fc) ==
    IF fc.err THEN NoReader
    ELSE [err |-> FALSE,
          block_size |-> files.block_size,
          doc_id_map |-> files.doc_id_map,
          offsets |-> files.postings_offsets,
          rev_doc_id_map |-> files.rev_doc_id_map,
          terms_order |-> fc.terms,
          postings_blob |-> files.postings_bin]

\* CompressedReader.__init__: err is FileNotFoundError, or the error of
\* _decode_lexicon_fc when terms_order is rebuilt from lexicon.bin.
CompressedReader(files) ==
    IF ~files.have_all THEN NoReader
    ELSE
        reader_of(files,
                  IF files.terms_order = <<>> /\ files.has_lexicon
                      THEN _decode_lexicon_fc(files.lexicon_bin, files.block_size)
                      ELSE [err |-> FALSE, terms |-> files.terms_order])

\* Mutant: self.offsets.get(term, (0, len(blob))): a term without an entry
\* is given the whole blob.
postings_wholeblob(blob, offsets, term) ==
    LET start == IF term \in DOMAIN offsets THEN offsets[term][1] ELSE 0
        length == IF term \in DOMAIN offsets THEN offsets[term][2]
                                             ELSE Len(blob)
        slice_bytes == Slice(blob, start, start + length)
        gaps == _vb_decode_stream(slice_bytes).nums
    IN  _from_dgaps(gaps)

\* CompressedReader.postings over the reader's blob and offsets table.
postings(blob, offsets, term) ==
    IF term \notin DOMAIN offsets THEN <<>>
    ELSE
        LET start == offsets[term][1]
            length == offsets[term][2]
            slice_bytes == Slice(blob, start, start + length)
            gaps == _vb_decode_stream(slice_bytes).nums
        IN  _from_dgaps(gaps)

\* _universo_docs_from_backend for buscar_fn = cr.postings.
_universo_docs_from_backend(r) ==
    UNION {Range(postings(r.postings_blob, r.offsets, r.terms_order[i]))
             : i \in 1..Len(r.terms_order)}

(***************************************************************************)
(* buscar.py: the boolean query engine.  A token is a str; the keyword     *)
(* tokens are the upper-case words the tokenizer emits.                    *)
(***************************************************************************)
AND == <<65, 78, 68>>
OR == <<79, 82>>
NOT == <<78, 79, 84>>
LPAREN == <<40>>
RPAREN == <<41>>

es_operador(t) == t \in {AND, OR, NOT}

\* Mutant: AND and OR get the same precedence.
precedencia_flat(t) == IF t = NOT THEN 3 ELSE 1

precedencia(t) == IF t = OR THEN 1 ELSE IF t = AND THEN 2 ELSE 3
asociatividad(t) == IF t = NOT THEN "right" ELSE "left"

\* An element of the postfix list: ("TERM", t) or an operator token.
RpnTerm(t) == [term |-> TRUE, v |-> t]
RpnOp(t) == [term |-> FALSE, v |-> t]

\* while ops and ops[-1] != "(": salida.append(ops.pop())
RECURSIVE pop_to_paren(_, _)
pop_to_paren(salida, ops) ==
    IF ops # <<>> /\ Last(ops) # LPAREN
        THEN pop_to_paren(Append(salida, RpnOp(Last(ops))),
                          SubSeq(ops, 1, Len(ops) - 1))
        ELSE [salida |-> salida, ops |-> ops]

\* The while loop run when the operator t arrives.
RECURSIVE pop_operators(_, _, _)
pop_operators(t, salida, ops) ==
    IF /\ ops # <<>>
       /\ es_operador(Last(ops))
       /\ \/ asociatividad(t) = "left"
             /\ precedencia(t) <= precedencia(Last(ops))
          \/ asociatividad(t) = "right"
             /\ precedencia(t) < precedencia(Last(ops))
        THEN pop_operators(t, Append(salida, RpnOp(Last(ops))),
                           SubSeq(ops, 1, Len(ops) - 1))
        ELSE [salida |-> salida, ops |-> ops]

\* Mutant: a "(" left on the stack at the end is dropped silently.
RECURSIVE drain_ops_lenient(_, _)
drain_ops_lenient(salida, ops) ==
    IF ops = <<>> THEN [err |-> FALSE, salida |-> salida]
    ELSE LET top == Last(ops)
             rest == SubSeq(ops, 1, Len(ops) - 1)
         IN  IF top \in {LPAREN, RPAREN}
                 THEN drain_ops_lenient(salida, rest)
                 ELSE drain_ops_lenient(Append(salida, RpnOp(top)), rest)

\* The final  while ops  loop: a parenthesis left on the stack raises.
RECURSIVE drain_ops(_, _)
drain_ops(salida, ops) ==
    IF ops = <<>> THEN [err |-> FALSE, salida |-> salida]
    ELSE LET top == Last(ops)
             rest == SubSeq(ops, 1, Len(ops) - 1)
         IN  IF top \in {LPAREN, RPAREN}
                 THEN [err |-> TRUE, salida |-> <<>>]
                 ELSE drain_ops(Append(salida, RpnOp(top)), rest)

\* The  for t in tokens  loop from token i on, then the final loop.
RECURSIVE a_rpn_loop(_, _, _, _)
a_rpn_loop(tokens, i, salida, ops) ==
    IF i > Len(tokens) THEN drain_ops(salida, ops)
    ELSE
        LET t == tokens[i]
        IN  IF t = LPAREN
                THEN a_rpn_loop(tokens, i + 1, salida, Append(ops, t))
            ELSE IF t = RPAREN
                THEN LET r == pop_to_paren(salida, ops)
                     IN  IF r.ops = <<>>
                             THEN [err |-> TRUE, salida |-> <<>>]
                             ELSE a_rpn_loop(tokens, i + 1, r.salida,
                                             SubSeq(r.ops, 1, Len(r.ops) - 1))
            ELSE IF es_operador(t)
                THEN LET r == pop_operators(t, salida, ops)
                     IN  a_rpn_loop(tokens, i + 1, r.salida, Append(r.ops, t))
            ELSE a_rpn_loop(tokens, i + 1, Append(salida, RpnTerm(t)), ops)

\* [err, salida]; err is ValueError("Parentesis desbalanceados").
_a_rpn(tokens) == a_rpn_loop(tokens, 1, <<>>, <<>>)

\* Mutant: NOT removes the operand's documents from the universe set in
\* place (universo -= a) and pushes that same set.
eval_not_inplace(pila, univ) ==
    LET a == Last(pila)
    IN  [universo |-> univ \ a,
         pila |-> Append(SubSeq(pila, 1, Len(pila) - 1), univ \ a)]

\* a = pila.pop(); pila.append(universo - a): a new set, universo as it was.
eval_not(pila, univ) ==
    LET a == Last(pila)
    IN  [universo |-> univ,
         pila |-> Append(SubSeq(pila, 1, Len(pila) - 1), univ \ a)]

\* The  for t in rpn  loop from element i on and the final check.
\* [err, val, universo, steps]: err is a ValueError, universo the set object
\* passed in as it is after the call, steps the elements the loop took up.
RECURSIVE evaluar_loop(_, _, _, _, _, _)
evaluar_loop(rpn, i, pila, blob, offsets, univ) ==
    IF i > Len(rpn)
        THEN IF Len(pila) # 1
                 THEN [universo |-> univ,
                       err |-> TRUE,
                       val |-> {},
                       steps |-> i - 1]
                 ELSE [universo |-> univ,
                       err |-> FALSE,
                       val |-> pila[1],
                       steps |-> i - 1]
    ELSE
        LET t == rpn[i]
            fail == [universo |-> univ,
                     err |-> TRUE,
                     val |-> {},
                     steps |-> i]
        IN  IF t.term
                THEN evaluar_loop(rpn, i + 1,
                         Append(pila, Range(postings(blob, offsets, t.v))),
                         blob, offsets, univ)
            ELSE IF t.v = NOT
                THEN IF pila = <<>> THEN fail
                     ELSE LET r == eval_not(pila, univ)
                          IN  evaluar_loop(rpn, i + 1, r.pila, blob, offsets,
                                           r.universo)
            ELSE IF t.v \in {AND, OR}
                THEN IF Len(pila) < 2 THEN fail
                     ELSE LET b == pila[Len(pila)]
                              a == pila[Len(pila) - 1]
                              rest == SubSeq(pila, 1, Len(pila) - 2)
                          IN  evaluar_loop(rpn, i + 1,
                                  Append(rest, IF t.v = AND THEN a \cap b
                                                            ELSE a \cup b),
                                  blob, offsets, univ)
            ELSE fail

evaluar_rpn(rpn, blob, offsets, univ) ==
    evaluar_loop(rpn, 1, <<>>, blob, offsets, univ)

\* sets = [set(buscar_fn(term)) for term in terminos if term]
busqueda_sets(blob, offsets, terminos) ==
    LET kept == SelectSeq(terminos, LAMBDA term : term # <<>>)
    IN  [i \in 1..Len(kept) |-> Range(postings(blob, offsets, kept[i]))]

\* Mutant: the sets are united, as in busqueda_or.
busqueda_and_union(blob, offsets, terminos) ==
    LET sets == busqueda_sets(blob, offsets, terminos)
    IN  IF sets = <<>> THEN {} ELSE UNION Range(sets)

\* set.intersection(*sets) if sets else set()
busqueda_and(blob, offsets, terminos) ==
    LET sets == busqueda_sets(blob, offsets, terminos)
    IN  IF sets = <<>> THEN {}
        ELSE {d \in sets[1] : \A i \in 1..Len(sets) : d \in sets[i]}

busqueda_or(blob, offsets, terminos) ==
    LET sets == busqueda_sets(blob, offsets, terminos)
    IN  IF sets = <<>> THEN {} ELSE UNION Range(sets)

busqueda_not(blob, offsets, terminos, univ) ==
    LET sets == busqueda_sets(blob, offsets, terminos)
        excluidos == IF sets = <<>> THEN {} ELSE UNION Range(sets)
    IN  univ \ excluidos

(***************************************************************************)
(* buscar.py: main.  What one pass of the menu loop does with its input:   *)
(*   status     "ok": a result was printed; "error": a ValueError was      *)
(*              caught and reported; "unavailable": option 3 without a     *)
(*              universe; "none": nothing was looked up                    *)
(*   stage      for option 4, the call the try block ended in              *)
(*   resultado  the set of document IDs found                              *)
(*   steps      elements of the postfix list evaluar_rpn took up           *)
(*   univ   the universe set object after the pass                     *)
(***************************************************************************)
Pass(status, stage, resultado, steps, u) ==
    [universo |-> u,
     steps |-> steps,
     status |-> status,
     stage |-> stage,
     resultado |-> resultado]

opcion_0(blob, offsets, univ, palabra) ==
    IF palabra # <<>>
        THEN Pass("ok", "direct", Range(postings(blob, offsets, palabra)), 0,
                  univ)
        ELSE Pass("none", "direct", {}, 0, univ)

opcion_1(blob, offsets, univ, terminos) ==
    Pass("ok", "direct", busqueda_and(blob, offsets, terminos), 0, univ)

opcion_2(blob, offsets, univ, terminos) ==
    Pass("ok", "direct", busqueda_or(blob, offsets, terminos), 0, univ)

opcion_3(blob, offsets, univ, terminos) ==
    IF univ # {}
        THEN Pass("ok", "direct",
                  busqueda_not(blob, offsets, terminos, univ), 0, univ)
        ELSE Pass("unavailable", "direct", {}, 0, univ)

\* Mutant: the test on the universe is left out.
opcion_4_nocheck(blob, offsets, univ, tokens) ==
    LET rpn == _a_rpn(tokens)
    IN  IF rpn.err THEN Pass("error", "parse", {}, 0, univ)
        ELSE LET r == evaluar_rpn(rpn.salida, blob, offsets, univ)
             IN  IF r.err THEN Pass("error", "eval", {}, r.steps, r.universo)
                 ELSE Pass("ok", "eval", r.val, r.steps, r.universo)

\* The try block of option 4, on the tokens of the query typed.
opcion_4(blob, offsets, univ, tokens) ==
    LET rpn == _a_rpn(tokens)
    IN  IF rpn.err THEN Pass("error", "parse", {}, 0, univ)
        ELSE IF univ = {} /\ NOT \in Range(tokens)
            THEN Pass("error", "universe", {}, 0, univ)
        ELSE LET r == evaluar_rpn(rpn.salida, blob, offsets, univ)
             IN  IF r.err THEN Pass("error", "eval", {}, r.steps, r.universo)
                 ELSE Pass("ok", "eval", r.val, r.steps, r.universo)

(***************************************************************************)
(* SpecVB: the codec alone.  Either a list of integers grows by one        *)
(* integer and is encoded and decoded again, or the stream grows by one    *)
(* raw byte (a truncated or foreign stream) and is decoded.                *)
(***************************************************************************)
VBInit ==
    /\ vbIn = <<>>
    /\ vbBytes = <<>>
    /\ vbRaw = FALSE
    /\ vbOut = _vb_decode_stream(<<>>)
    /\ fcTerms = <<>>
    /\ fcBlock = 1
    /\ fcBlob = <<>>
    /\ fcOut = [err |-> FALSE, terms |-> <<>>]
    /\ indice = <<>>
    /\ compressed = NoIndex
    /\ cr = NoReader
    /\ universo = {}
    /\ opcion = "none"
    /\ entrada = <<>>
    /\ outcome = Pass("none", "direct", {}, 0, {})
    /\ huboError = FALSE

EncodeDecode(x) ==
    /\ ~vbRaw
    /\ Len(vbIn) < MaxSeqLen
    /\ ~vb_encode_list_raises(Append(vbIn, x))
    /\ vbIn' = Append(vbIn, x)
    /\ vbBytes' = vb_encode_list(vbIn')
    /\ vbOut' = _vb_decode_stream(vbBytes')
    /\ UNCHANGED <<vbRaw, fcVars, compVars, qVars>>

DecodeRaw(b) ==
    /\ Len(vbBytes) < Len(vb_encode_list(vbIn)) + MaxRawBytes
    /\ vbRaw' = TRUE
    /\ vbBytes' = Append(vbBytes, b)
    /\ vbOut' = _vb_decode_stream(vbBytes')
    /\ UNCHANGED <<vbIn, fcVars, compVars, qVars>>

VBNext ==
    \/ \E x \in VBValues : EncodeDecode(x)
    \/ \E b \in RawBytes : DecodeRaw(b)

SpecVB == VBInit /\ [][VBNext]_vars

\* C2: decoding the concatenated encodings of a list of non-negative
\* integers returns exactly that list (same length, same order), zeros and
\* multi-byte values included.
VBRoundTrip ==
    ~vbRaw => /\ vbBytes = vb_encode_list(vbIn)
              /\ ~vbOut.raised
              /\ vbOut.nums = vbIn

\* C2 witness: a list holding a 0 and a value of several bytes was encoded
\* and decoded.
VBRoundTripWitness ==
    /\ ~vbRaw
    /\ Len(vbIn) = MaxSeqLen
    /\ 0 \in Range(vbIn)
    /\ \E i \in 1..Len(vbIn) : vbIn[i] >= 128
    /\ Len(vbBytes) > Len(vbIn)
    /\ vbOut.nums = vbIn

\* C3 (as claimed): a stream whose last byte has its high bit clear makes
\* _vb_decode_stream raise a decode error.
VBTruncatedRaises ==
    (vbBytes # <<>> /\ Last(vbBytes) < 128) => vbOut.raised

(***************************************************************************)
(* SpecFC: front coding alone.  A sorted list of distinct terms grows by   *)
(* one term (kept sorted, as sorted(index_int.keys()) is); it is front     *)
(* coded with the block size chosen at the start and decoded again.        *)
(***************************************************************************)
FCInit ==
    /\ fcTerms = <<>>
    /\ fcBlock \in 1..MaxBlock
    /\ fcBlob = front_code_blocks(<<>>, 1)
    /\ fcOut = _decode_lexicon_fc(fcBlob, 1)
    /\ vbIn = <<>>
    /\ vbBytes = <<>>
    /\ vbRaw = FALSE
    /\ vbOut = [nums |-> <<>>, raised |-> FALSE]
    /\ indice = <<>>
    /\ compressed = NoIndex
    /\ cr = NoReader
    /\ universo = {}
    /\ opcion = "none"
    /\ entrada = <<>>
    /\ outcome = Pass("none", "direct", {}, 0, {})
    /\ huboError = FALSE

FrontCode(t) ==
    /\ Len(fcTerms) < MaxTerms
    /\ IF fcTerms = <<>> THEN TRUE ELSE StrLess(Last(fcTerms), t)
    /\ fcTerms' = Append(fcTerms, t)
    /\ fcBlob' = front_code_blocks(fcTerms', fcBlock)
    /\ fcOut' = _decode_lexicon_fc(fcBlob', fcBlock)
    /\ UNCHANGED <<fcBlock, vbVars, compVars, qVars>>

FCNext == \E t \in TermPool : FrontCode(t)

SpecFC == FCInit /\ [][FCNext]_vars

\* C4: decoding the front-coded blob of a sorted list of distinct non-empty
\* terms (multi-byte characters included), for any block size >= 1, returns
\* exactly that list in the same order and raises nothing.
FCRoundTrip == ~fcOut.err /\ fcOut.terms = fcTerms

\* C4 witness: a list with non-ASCII terms, more than one block and a
\* follower sharing a prefix with its base was coded and decoded.
FCRoundTripWitness ==
    /\ fcBlock = 2
    /\ Len(fcTerms) = 4
    /\ \E i \in 1..Len(fcTerms) : \E j \in 1..Len(fcTerms[i]) :
           fcTerms[i][j] >= 128
    /\ lcp(fcTerms[1], fcTerms[2]) > 0
    /\ Len(fcBlob) > 0
    /\ fcOut.terms = fcTerms

(***************************************************************************)
(* SpecComp: main.py's pipeline on a growing raw index.  The raw index     *)
(* gets a new term or one more document ID (any order, repeats allowed);   *)
(* it is compressed, saved and loaded into a CompressedReader.             *)
(***************************************************************************)
\* comprimir_indice, guardar_comprimido and CompressedReader on a raw index.
Reload(c) ==
    [cr |-> IF c.err THEN NoReader
                     ELSE CompressedReader(guardar_comprimido(c)),
     comp |-> c]

Pipeline(ix) == Reload(comprimir_indice(ix, BlockSize))

TotalPostings(ix) ==
    Cardinality({<<i, j>> \in (1..Len(ix)) \X (1..MaxPostings + 1) :
                    j <= Len(ix[i].plist)})

CompInit ==
    /\ indice = <<>>
    /\ compressed = Pipeline(indice).comp
    /\ cr = Pipeline(indice).cr
    /\ vbIn = <<>>
    /\ vbBytes = <<>>
    /\ vbRaw = FALSE
    /\ vbOut = [nums |-> <<>>, raised |-> FALSE]
    /\ fcTerms = <<>>
    /\ fcBlock = 1
    /\ fcBlob = <<>>
    /\ fcOut = [err |-> FALSE, terms |-> <<>>]
    /\ universo = {}
    /\ opcion = "none"
    /\ entrada = <<>>
    /\ outcome = Pass("none", "direct", {}, 0, {})
    /\ huboError = FALSE

AddTerm(t) ==
    /\ t \notin IndexKeys(indice)
    /\ indice' = Append(indice, [term |-> t, plist |-> <<>>])
    /\ compressed' = Pipeline(indice').comp
    /\ cr' = Pipeline(indice').cr
    /\ UNCHANGED <<vbVars, fcVars, qVars>>

AddDoc(i, d) ==
    /\ i \in 1..Len(indice)
    /\ TotalPostings(indice) < MaxPostings
    /\ indice' = [indice EXCEPT ![i].plist = Append(@, d)]
    /\ compressed' = Pipeline(indice').comp
    /\ cr' = Pipeline(indice').cr
    /\ UNCHANGED <<vbVars, fcVars, qVars>>

CompNext ==
    \/ \E t \in CompTerms : AddTerm(t)
    \/ \E i \in 1..Cardinality(CompTerms), n \in DocPool : AddDoc(i, DocInt(n))

SpecComp == CompInit /\ [][CompNext]_vars

\* The strictly increasing list of the elements of a set of integers.
Increasing(S) ==
    CHOOSE q \in [1..Cardinality(S) -> S] :
        \A a, b \in 1..Cardinality(S) : a < b => q[a] < q[b]

NonNegInts(ix) ==
    \A d \in all_docids_of(ix) : d.int /\ d.n >= 0

\* C1: for a raw index of non-negative integer document IDs (repeats and
\* any order allowed), compression succeeds and the loaded reader's
\* postings(term) is, for every term of the index, the strictly increasing
\* duplicate-free list of that term's IDs; an empty list gives the empty list.
PostingsRoundTrip ==
    NonNegInts(indice) =>
        /\ ~compressed.err
        /\ ~cr.err
        /\ \A i \in 1..Len(indice) :
               postings(cr.postings_blob, cr.offsets, indice[i].term)
                   = Increasing({d.n : d \in Range(indice[i].plist)})

\* C1 witness: the list 3, 7, 7, 40 was stored for a term and read back as
\* 3, 7, 40, next to a term whose list is empty.
PostingsRoundTripWitness ==
    /\ ~cr.err
    /\ \E i \in 1..Len(indice) :
           /\ indice[i].plist = <<DocInt(3), DocInt(7), DocInt(7), DocInt(40)>>
           /\ postings(cr.postings_blob, cr.offsets, indice[i].term)
                  = <<3, 7, 40>>
    /\ \E i \in 1..Len(indice) :
           /\ indice[i].plist = <<>>
           /\ postings(cr.postings_blob, cr.offsets, indice[i].term) = <<>>

\* The sum of the lengths recorded for the first k terms of ts.
RECURSIVE SumLengths(_, _, _)
SumLengths(offsets, ts, k) ==
    IF k = 0 THEN 0 ELSE SumLengths(offsets, ts, k - 1) + offsets[ts[k]][2]

\* The slices recorded in the loop state st for the first k terms of ts:
\* one per term, inside the blob, pairwise disjoint, each starting where
\* the one before ends, the first at 0, together as long as the blob.
SlicesTile(st, ts, k) ==
    /\ ~st.err
    /\ DOMAIN st.offsets = {ts[i] : i \in 1..k}
    /\ \A i \in 1..k :
           /\ st.offsets[ts[i]][1] >= 0
           /\ st.offsets[ts[i]][2] >= 0
           /\ st.offsets[ts[i]][1] + st.offsets[ts[i]][2] <= Len(st.blob)
           /\ st.offsets[ts[i]][1] =
                  IF i = 1 THEN 0
                  ELSE st.offsets[ts[i - 1]][1] + st.offsets[ts[i - 1]][2]
    /\ \A i, j \in 1..k :
           i < j => st.offsets[ts[i]][1] + st.offsets[ts[i]][2]
                        <= st.offsets[ts[j]][1]
    /\ SumLengths(st.offsets, ts, k) = Len(st.blob)

\* C14: after each iteration of the postings loop of comprimir_indice the
\* slices recorded so far are pairwise disjoint, inside the blob, contiguous
\* from offset 0 in sorted term order and as long together as the blob; the
\* index returned holds the last of these states, with exactly one entry
\* for every term of the raw mapping.
OffsetsTileBlob ==
    ~compressed.err =>
        /\ \A k \in 0..Len(compressed.lexicon_terms_order) :
               SlicesTile(
                   posting_loop(_normalize_docids_to_ints(indice).index_int,
                                compressed.lexicon_terms_order, k),
                   compressed.lexicon_terms_order, k)
        /\ SlicesTile([err |-> FALSE,
                       blob |-> compressed.postings_bytes,
                       offsets |-> compressed.postings_offsets],
                      compressed.lexicon_terms_order,
                      Len(compressed.lexicon_terms_order))
        /\ DOMAIN compressed.postings_offsets = IndexKeys(indice)
        /\ Len(compressed.lexicon_terms_order) = Len(indice)
        /\ \A i, j \in 1..Len(compressed.lexicon_terms_order) :
               i < j => StrLess(compressed.lexicon_terms_order[i],
                                compressed.lexicon_terms_order[j])

\* C14 witness: gato, inserted after perro, holds 3 and 130 (two bytes) and
\* got the slice (0, 2); perro holds 130 and got (2, 2) of a blob of 4
\* bytes.
OffsetsTileBlobWitness ==
    /\ ~compressed.err
    /\ Len(indice) = 2
    /\ indice[1].term = perro
    /\ Len(indice[1].plist) = 1
    /\ indice[1].plist[1] = DocInt(130)
    /\ Len(indice[2].plist) = 2
    /\ indice[2].plist[1] = DocInt(130)
    /\ indice[2].plist[2] = DocInt(3)
    /\ compressed.postings_offsets[gato] = <<0, 2>>
    /\ compressed.postings_offsets[perro] = <<2, 2>>
    /\ Len(compressed.postings_bytes) = 4

(***************************************************************************)
(* SpecIds: raw indexes whose document IDs are of any type: the ints -1, 3 *)
(* and 12 and the strs "3", "12" and "b", in any list and any order, the   *)
(* terms inserted in either order.                                         *)
(***************************************************************************)
IdPool ==
    {DocInt(0 - 1), DocInt(3), DocInt(12),
     DocStr(<<51>>), DocStr(<<49, 50>>), DocStr(<<98>>)}

AddId(i, d) ==
    /\ i \in 1..Len(indice)
    /\ TotalPostings(indice) < MaxIds
    /\ indice' = [indice EXCEPT ![i].plist = Append(@, d)]
    /\ compressed' = Pipeline(indice').comp
    /\ cr' = Pipeline(indice').cr
    /\ UNCHANGED <<vbVars, fcVars, qVars>>

IdsNext ==
    \/ \E t \in CompTerms : AddTerm(t)
    \/ \E i \in 1..Cardinality(CompTerms), d \in IdPool : AddId(i, d)

SpecIds == CompInit /\ [][IdsNext]_vars

AllInts(ix) == \A d \in all_docids_of(ix) : d.int
AllStrs(ix) == \A d \in all_docids_of(ix) : ~d.int

\* What C11 says of a produced index: every external ID e is a key of
\* doc_id_map by its label str(e) and rev_doc_id_map gives the label back;
\* distinct external IDs have distinct internal IDs; str IDs are numbered
\* 1..N in lexicographic order, slot 0 is "<NULL>" and 0 is in no posting
\* list; int IDs keep their value.
IdMapsFaithful ==
    LET all == all_docids_of(indice)
        dm == compressed.doc_id_map
        rev == compressed.rev_doc_id_map
    IN  /\ \A e \in all :
               /\ py_str(e) \in DOMAIN dm
               /\ dm[py_str(e)] \in 0..(Len(rev) - 1)
               /\ rev[dm[py_str(e)] + 1] = py_str(e)
        /\ \A d, e \in all : d # e => dm[py_str(d)] # dm[py_str(e)]
        /\ (all # {} /\ AllStrs(indice)) =>
               /\ {dm[e.s] : e \in all} = 1..Cardinality(all)
               /\ \A d, e \in all : StrLess(d.s, e.s) => dm[d.s] < dm[e.s]
               /\ rev[1] = NULL
               /\ \A i \in 1..Len(indice) :
                      LET p == postings(cr.postings_blob, cr.offsets,
                                        indice[i].term)
                      IN  /\ 0 \notin Range(p)
                          /\ Range(p) = {dm[e.s] : e \in Range(indice[i].plist)}
        /\ AllInts(indice) => \A e \in all : dm[py_str(e)] = e.n

\* C11 as stated: in every CompressedIndex produced by comprimir_indice,
\* whatever the raw mapping, distinct external IDs get distinct internal
\* IDs, rev_doc_id_map[doc_id_map[e]] is the label of e, non-integer IDs are
\* numbered 1..N in lexicographic order with slot 0 the null sentinel, and
\* integer IDs keep their value.
DocIdMapsFaithful ==
    ~compressed.err => IdMapsFaithful

\* C11 amended: the same, for every CompressedIndex produced from a raw
\* mapping whose document IDs are all ints or all strs.
DocIdMapsFaithfulSameType ==
    (~compressed.err /\ (AllInts(indice) \/ AllStrs(indice)))
        => IdMapsFaithful

\* C11 witness: the strs "b", "3" and "12" over two terms got 3, 2 and 1,
\* and in another index the ints 12 and 3 kept their values.
DocIdMapsFaithfulWitness ==
    /\ ~compressed.err
    /\ Len(indice) = 2
    /\ indice[1].plist # <<>>
    /\ indice[2].plist # <<>>
    /\ all_docids_of(indice) =
           {DocStr(<<98>>), DocStr(<<51>>), DocStr(<<49, 50>>)}
    /\ compressed.doc_id_map[<<49, 50>>] = 1
    /\ compressed.doc_id_map[<<51>>] = 2
    /\ compressed.doc_id_map[<<98>>] = 3
    /\ compressed.rev_doc_id_map = <<NULL, <<49, 50>>, <<51>>, <<98>>>>

HasNegativeInt(ix) == \E d \in all_docids_of(ix) : d.int /\ d.n < 0
MixedTypes(ix) == ~AllInts(ix) /\ ~AllStrs(ix)

\* C12 as stated: comprimir_indice fails, returning no CompressedIndex, on
\* every raw mapping that contains a negative int document ID or both int
\* and non-int document IDs, whichever list holds the offending ID and
\* whatever the order of the terms.
MalformedIdsRejected ==
    (HasNegativeInt(indice) \/ MixedTypes(indice)) => compressed.err

\* C12 amended: comprimir_indice fails on every raw mapping whose document
\* IDs are all ints and one of them negative, whichever list holds it and
\* whatever the order of the terms.
NegativeIntRejected ==
    (AllInts(indice) /\ HasNegativeInt(indice)) => compressed.err

\* C12 witness: -1 is in the list of the term met first, behind a
\* non-negative ID, the other term has IDs too, and compression failed.
NegativeIntRejectedWitness ==
    /\ compressed.err
    /\ AllInts(indice)
    /\ Len(indice) = 2
    /\ indice[1].plist = <<DocInt(3), DocInt(0 - 1)>>
    /\ indice[2].plist = <<DocInt(12)>>

(***************************************************************************)
(* The query session.  The index of the example (gato in 1 and 2, perro in *)
(* 2 and 3, raton in 3) is compressed and saved; the reader loads the      *)
(* files, main computes the universe once, and then every step is one pass *)
(* of the menu loop.  The input of a pass is empty, one word, or the       *)
(* previous input of the same option with one more word.                   *)
(***************************************************************************)
ExampleIndex ==
    << [term |-> gato, plist |-> <<DocInt(1), DocInt(2)>>],
       [term |-> perro, plist |-> <<DocInt(2), DocInt(3)>>],
       [term |-> raton, plist |-> <<DocInt(3)>>] >>

\* The saved files: as written, without the terms_order entry of
\* doc_maps.json, or without it and without lexicon.bin.
SavedFiles(c, variant) ==
    LET f == guardar_comprimido(c)
    IN  IF variant = "full" THEN f
        ELSE IF variant = "lexicon"
            THEN [f EXCEPT !.terms_order = <<>>]
        ELSE [f EXCEPT !.terms_order = <<>>, !.has_lexicon = FALSE,
                       !.lexicon_bin = <<>>]

\* main up to the menu loop, on the files of the given variant.
Loaded(variant) ==
    /\ indice = ExampleIndex
    /\ compressed = comprimir_indice(ExampleIndex, BlockSize)
    /\ cr = CompressedReader(SavedFiles(compressed, variant))
    /\ universo = _universo_docs_from_backend(cr)
    /\ opcion = "none"
    /\ entrada = <<>>
    /\ outcome = Pass("none", "direct", {}, 0, universo)
    /\ huboError = FALSE

Words == {gato, perro, raton, otro}
QueryTokens == {gato, perro, AND, OR, NOT, LPAREN, RPAREN}
EjemploConsulta == <<LPAREN, gato, OR, perro, RPAREN, AND, NOT, raton>>

\* The inputs option op can get now: nothing, one word, or one more word.
Inputs(op, pool, max) ==
    {<<>>} \cup {<<w>> : w \in pool}
        \cup (IF opcion = op /\ Len(entrada) < max
                  THEN {Append(entrada, w) : w \in pool} ELSE {})

\* One pass: the option, its input and what it did are recorded.
Record(op, input, pass) ==
    /\ opcion' = op
    /\ entrada' = input
    /\ outcome' = pass
    /\ universo' = pass.universo
    /\ huboError' = (huboError \/ outcome.status = "error")
    /\ UNCHANGED <<vbVars, fcVars, compVars>>

Opcion0(palabra) ==
    Record("0", <<palabra>>,
           opcion_0(cr.postings_blob, cr.offsets, universo, palabra))

Opcion1(terminos) ==
    Record("1", terminos,
           opcion_1(cr.postings_blob, cr.offsets, universo, terminos))

Opcion2(terminos) ==
    Record("2", terminos,
           opcion_2(cr.postings_blob, cr.offsets, universo, terminos))

Opcion3(terminos) ==
    Record("3", terminos,
           opcion_3(cr.postings_blob, cr.offsets, universo, terminos))

Opcion4(tokens) ==
    Record("4", tokens,
           opcion_4(cr.postings_blob, cr.offsets, universo, tokens))

Init ==
    /\ \E variant \in {"full", "lexicon", "none"} : Loaded(variant)
    /\ vbIn = <<>>
    /\ vbBytes = <<>>
    /\ vbRaw = FALSE
    /\ vbOut = [nums |-> <<>>, raised |-> FALSE]
    /\ fcTerms = <<>>
    /\ fcBlock = 1
    /\ fcBlob = <<>>
    /\ fcOut = [err |-> FALSE, terms |-> <<>>]

Next ==
    \/ \E palabra \in Words : Opcion0(palabra)
    \/ \E terminos \in Inputs("1", Words, MaxTerminos) : Opcion1(terminos)
    \/ \E terminos \in Inputs("2", Words, MaxTerminos) : Opcion2(terminos)
    \/ \E terminos \in Inputs("3", Words, MaxTerminos) : Opcion3(terminos)
    \/ \E tokens \in Inputs("4", QueryTokens, MaxConsulta) : Opcion4(tokens)

Spec == Init /\ [][Next]_vars

(***************************************************************************)
(* SpecQuery: option 4 alone on the fully saved index, the query growing   *)
(* by one token per pass, and the example query of the menu.               *)
(***************************************************************************)
Consulta(tok) ==
    /\ Len(entrada) < MaxTokens
    /\ Opcion4(Append(entrada, tok))

Ejemplo == Opcion4(EjemploConsulta)

QueryNext ==
    \/ \E tok \in QueryTokens : Consulta(tok)
    \/ Ejemplo

QueryInit ==
    /\ Loaded("full")
    /\ vbIn = <<>>
    /\ vbBytes = <<>>
    /\ vbRaw = FALSE
    /\ vbOut = [nums |-> <<>>, raised |-> FALSE]
    /\ fcTerms = <<>>
    /\ fcBlock = 1
    /\ fcBlob = <<>>
    /\ fcOut = [err |-> FALSE, terms |-> <<>>]

SpecQuery == QueryInit /\ [][QueryNext]_vars

(***************************************************************************)
(* The meaning of a boolean expression, read off the raw index: the        *)
(* grammar                                                                 *)
(*     expr ::= conj (OR conj)*     conj ::= neg (AND neg)*                *)
(*     neg  ::= NOT neg | "(" expr ")" | term                              *)
(* with a term its set of documents, AND the intersection, OR the union    *)
(* and NOT the complement in the universe.                                 *)
(***************************************************************************)
RawSet(term) ==
    IF term \in IndexKeys(indice)
        THEN {d.n : d \in Range(indice[IndexGet(indice, term)].plist)}
        ELSE {}

RawUniverse == {d.n : d \in all_docids_of(indice)}

IsWord(t) == ~es_operador(t) /\ t \notin {LPAREN, RPAREN}

Bad == [pos |-> 0, val |-> {}, ok |-> FALSE]

RECURSIVE RefExpr(_, _), RefExprRest(_, _, _), RefConj(_, _),
          RefConjRest(_, _, _), RefNeg(_, _)

RefNeg(tk, i) ==
    IF i > Len(tk) THEN Bad
    ELSE IF tk[i] = NOT
        THEN LET r == RefNeg(tk, i + 1)
             IN  IF r.ok THEN [r EXCEPT !.val = RawUniverse \ r.val] ELSE Bad
    ELSE IF tk[i] = LPAREN
        THEN LET r == RefExpr(tk, i + 1)
             IN  IF r.ok /\ r.pos <= Len(tk) /\ tk[r.pos] = RPAREN
                     THEN [r EXCEPT !.pos = r.pos + 1]
                     ELSE Bad
    ELSE IF IsWord(tk[i])
        THEN [pos |-> i + 1, val |-> RawSet(tk[i]), ok |-> TRUE]
    ELSE Bad

RefConjRest(tk, i, acc) ==
    IF i <= Len(tk) /\ tk[i] = AND
        THEN LET r == RefNeg(tk, i + 1)
             IN  IF r.ok THEN RefConjRest(tk, r.pos, acc \cap r.val) ELSE Bad
        ELSE [pos |-> i, val |-> acc, ok |-> TRUE]

RefConj(tk, i) ==
    LET r == RefNeg(tk, i)
    IN  IF r.ok THEN RefConjRest(tk, r.pos, r.val) ELSE Bad

RefExprRest(tk, i, acc) ==
    IF i <= Len(tk) /\ tk[i] = OR
        THEN LET r == RefConj(tk, i + 1)
             IN  IF r.ok THEN RefExprRest(tk, r.pos, acc \cup r.val) ELSE Bad
        ELSE [pos |-> i, val |-> acc, ok |-> TRUE]

RefExpr(tk, i) ==
    LET r == RefConj(tk, i)
    IN  IF r.ok THEN RefExprRest(tk, r.pos, r.val) ELSE Bad

WellFormed(tk) == RefExpr(tk, 1).ok /\ RefExpr(tk, 1).pos = Len(tk) + 1
Meaning(tk) == RefExpr(tk, 1).val

\* Parentheses balanced: no ")" without an earlier open "(", none left open.
RECURSIVE Depth(_, _)
Depth(tk, i) ==
    IF i = 0 THEN 0
    ELSE Depth(tk, i - 1)
             + (IF tk[i] = LPAREN THEN 1 ELSE IF tk[i] = RPAREN THEN 0 - 1 ELSE 0)

Balanced(tk) ==
    /\ \A i \in 1..Len(tk) : Depth(tk, i) >= 0
    /\ Depth(tk, Len(tk)) = 0

\* C5: a well-formed boolean expression evaluates, through _a_rpn and
\* evaluar_rpn, to its meaning: NOT binds tighter than AND, AND tighter
\* than OR, parentheses group; a term is its posting set, AND intersects,
\* OR unites, NOT complements in the universe.
BooleanSemantics ==
    (opcion = "4" /\ WellFormed(entrada)) =>
        /\ universo = RawUniverse
        /\ outcome.status = "ok"
        /\ outcome.resultado = Meaning(entrada)

\* C5 witness: (gato OR perro) AND NOT raton was answered with {1, 2}.
BooleanSemanticsWitness ==
    /\ entrada = EjemploConsulta
    /\ WellFormed(entrada)
    /\ universo = {1, 2, 3}
    /\ outcome.status = "ok"
    /\ outcome.resultado = {1, 2}

\* C6: a query with unbalanced parentheses makes _a_rpn raise; the pass
\* ends in that error, no postfix list is evaluated, no result is given.
UnbalancedRejected ==
    (opcion = "4" /\ ~Balanced(entrada)) =>
        /\ _a_rpn(entrada).err
        /\ outcome.status = "error"
        /\ outcome.stage = "parse"
        /\ outcome.resultado = {}

\* C6 witness: the query "( gato AND perro" was rejected by _a_rpn.
UnbalancedRejectedWitness ==
    /\ entrada = <<LPAREN, gato, AND, perro>>
    /\ outcome.status = "error"
    /\ outcome.stage = "parse"

\* C7 (as claimed): a query with balanced parentheses that is no well-formed
\* infix expression is rejected with an error and yields no result set.
MalformedRejected ==
    (opcion = "4" /\ Balanced(entrada) /\ ~WellFormed(entrada)) =>
        outcome.status = "error"

\* C8: with an empty universe (the backend gives no term ordering), a
\* boolean query holding a NOT ends in an error before evaluar_rpn takes up
\* any element: nothing is pushed or popped and no result set is given.
NotRejectedUpFront ==
    (opcion = "4" /\ universo = {} /\ NOT \in Range(entrada)) =>
        /\ outcome.status = "error"
        /\ outcome.stage \in {"parse", "universe"}
        /\ outcome.steps = 0
        /\ outcome.resultado = {}

\* C8 witness: the reader has no term ordering and "NOT gato", which
\* _a_rpn accepts, was rejected by the test on the universe.
NotRejectedUpFrontWitness ==
    /\ cr.terms_order = <<>>
    /\ universo = {}
    /\ entrada = <<NOT, gato>>
    /\ ~_a_rpn(entrada).err
    /\ outcome.status = "error"
    /\ outcome.stage = "universe"

\* C9: busqueda_and gives the intersection of the listed terms' posting
\* sets, busqueda_or their union, busqueda_not the universe minus their
\* union; with no term listed, busqueda_and and busqueda_or give the
\* empty set.
MultiTermSemantics ==
    LET listed == {RawSet(entrada[i]) : i \in 1..Len(entrada)}
    IN  /\ opcion = "1" =>
               outcome.resultado =
                   IF entrada = <<>> THEN {}
                   ELSE {d \in RawUniverse : \A S \in listed : d \in S}
        /\ opcion = "2" => outcome.resultado = UNION listed
        /\ (opcion = "3" /\ outcome.status = "ok") =>
               outcome.resultado = universo \ UNION listed
        /\ opcion \in {"1", "2", "3"} =>
               /\ busqueda_and(cr.postings_blob, cr.offsets, <<>>) = {}
               /\ busqueda_or(cr.postings_blob, cr.offsets, <<>>) = {}

\* C9 witness: "gato perro" was answered by option 1 with {2}, the
\* intersection of {1, 2} and {2, 3}.
MultiTermSemanticsWitness ==
    /\ opcion = "1"
    /\ entrada = <<gato, perro>>
    /\ outcome.resultado = {2}

\* What option 4 answers to a query on a reader and a universe.
Answer(r, u, tokens) ==
    LET a == opcion_4(r.postings_blob, r.offsets, u, tokens)
    IN  <<a.status, a.resultado>>

ProbeQueries ==
    { <<gato>>, <<NOT, gato>>, <<gato, AND, perro>>, <<raton, OR, otro>> }

\* C10: a pass that ends in a parse or evaluation error leaves the reader
\* (posting blob, offsets, ID tables, term ordering) and the universe as
\* they were, so every later query is answered as it would have been.
ErrorLeavesIndexIntact ==
    [][outcome'.status = "error" =>
          /\ cr' = cr
          /\ universo' = universo
          /\ \A q \in ProbeQueries :
                 Answer(cr', universo', q) = Answer(cr, universo, q)
          /\ \A w \in Words :
                 postings(cr'.postings_blob, cr'.offsets, w)
                     = postings(cr.postings_blob, cr.offsets, w)]_vars

\* C10 witness: after a pass that failed while evaluating (a NOT had been
\* applied already), a later query was answered from the whole universe.
ErrorLeavesIndexIntactWitness ==
    /\ huboError
    /\ universo = RawUniverse
    /\ universo # {}
    /\ entrada = <<NOT, gato>>
    /\ outcome.status = "ok"
    /\ outcome.resultado = {3}

(***************************************************************************)
(* SpecUnknown: the session on the fully saved index with otro, a term of  *)
(* no posting list, among the words typed: alone (option 0), in the term   *)
(* lists of options 1 to 3 and in the boolean queries of option 4.         *)
(***************************************************************************)
UnknownTokens == {gato, otro, AND, OR, NOT}

UnknownNext ==
    \/ \E palabra \in Words : Opcion0(palabra)
    \/ \E terminos \in Inputs("1", {gato, perro, otro}, MaxTerminos) :
           Opcion1(terminos)
    \/ \E terminos \in Inputs("2", {gato, perro, otro}, MaxTerminos) :
           Opcion2(terminos)
    \/ \E terminos \in Inputs("3", {gato, perro, otro}, MaxTerminos) :
           Opcion3(terminos)
    \/ \E tokens \in Inputs("4", UnknownTokens, MaxTokens) : Opcion4(tokens)

SpecUnknown == QueryInit /\ [][UnknownNext]_vars

Unknown(t) == IsWord(t) /\ t \notin DOMAIN cr.offsets
HasUnknown(tk) == \E i \in 1..Len(tk) : Unknown(tk[i])
KnownSets(tk) == {RawSet(tk[i]) : i \in {j \in 1..Len(tk) : ~Unknown(tk[j])}}

\* C13: postings(term) is the empty sequence for every term without an
\* entry in the offsets table, and the pass that looks it up ends without
\* error; in a term list such a term counts as the empty set (AND gives
\* nothing, OR and NOT are those of the other terms), and a well-formed
\* boolean query holding it evaluates as with the empty set in its place.
UnknownTermIsEmpty ==
    /\ \A w \in Words :
           w \notin DOMAIN cr.offsets =>
               postings(cr.postings_blob, cr.offsets, w) = <<>>
    /\ HasUnknown(entrada) =>
           /\ opcion = "0" =>
                  outcome.status = "ok" /\ outcome.resultado = {}
           /\ opcion = "1" =>
                  outcome.status = "ok" /\ outcome.resultado = {}
           /\ opcion = "2" =>
                  /\ outcome.status = "ok"
                  /\ outcome.resultado = UNION KnownSets(entrada)
           /\ opcion = "3" =>
                  /\ outcome.status = "ok"
                  /\ outcome.resultado = universo \ UNION KnownSets(entrada)
           /\ (opcion = "4" /\ WellFormed(entrada)) =>
                  /\ outcome.status = "ok"
                  /\ outcome.resultado = Meaning(entrada)

\* C13 witness: "gato AND NOT otro" was answered with the documents of gato,
\* otro having no entry in the offsets table.
UnknownTermIsEmptyWitness ==
    /\ otro \notin DOMAIN cr.offsets
    /\ opcion = "4"
    /\ entrada = <<gato, AND, NOT, otro>>
    /\ outcome.status = "ok"
    /\ outcome.resultado = {1, 2}

====
